---- MODULE Spec2Model ----
(***************************************************************************)
(* Model of EDA/pandas_API/deploy_script.py: the fuzzy corrector           *)
(* (fix_word), the pagination loop, the envelope encoder (csv2json), the   *)
(* envelope decoder (read_from_api) and the grouped aggregation of main.   *)
(*                                                                         *)
(* Strings are sequences of code points (Python compares and matches str   *)
(* code point by code point), so "Spain" is <<83, 112, 97, 105, 110>>.     *)
(***************************************************************************)
EXTENDS Integers, Sequences, FiniteSets, TLC

VARIABLES
    pc,          \* position of the running script
    word,        \* fix_word: the value being corrected
    options,     \* fix_word: the list of correct words
    fixed,       \* fix_word(word, options)
    refixed,     \* fix_word(fixed, options)
    df,          \* main: the dataset, a sequence of records
    rows_page,   \* main: the rows per page
    i,           \* the index of the running loop
    pages,       \* main: the list of pages
    json_body,   \* csv2json: json_body['pages']
    json_file,   \* the 'pages' list stored in transactions.json
    csv_data,    \* read_from_api: the list of decoded pages
    total_df,    \* read_from_api: the returned dataset
    average_outstanding,  \* main: mean pending amount by country
    total_completed,      \* main: sum of completed amounts by country
    error_rate,           \* main: failed / all by country
    critical_rate,        \* main: critical failed / all by country
    final_df              \* main: the report

fuzzyVars == <<word, options, fixed, refixed>>
pipeVars == <<df, rows_page, i, pages, json_body, json_file, csv_data, total_df>>
aggVars == <<average_outstanding, total_completed, error_rate, critical_rate,
             final_df>>
vars == <<pc, fuzzyVars, pipeVars, aggVars>>

----------------------------------------------------------------------------
(* Bounds of the model *)

\* longest generated input word of fix_word
MaxWordLen == 3
\* longest generated list of correct words
MaxOptions == 2
\* most records of a generated dataset
MaxRows == 3
\* largest generated page size
MaxRowsPage == 2
\* most PageRecords of a generated envelope
MaxEnvPages == 3
\* most records of a generated cleaned dataset
MaxAggRows == 4

----------------------------------------------------------------------------
(* Generic helpers *)

Min(x, y) == IF x <= y THEN x ELSE y

Range(s) == {s[k] : k \in DOMAIN s}

SeqsUpTo(S, n) == UNION {[1..k -> S] : k \in 0..n}

\* Python's str "<": code point by code point, a proper prefix is smaller
RECURSIVE StrLess(_, _)
StrLess(a, b) ==
    IF b = <<>> THEN FALSE
    ELSE IF a = <<>> THEN TRUE
    ELSE IF Head(a) # Head(b) THEN Head(a) < Head(b)
    ELSE StrLess(Tail(a), Tail(b))

----------------------------------------------------------------------------
(* The words of the program *)

Spain   == <<83, 112, 97, 105, 110>>
Germany == <<71, 101, 114, 109, 97, 110, 121>>
Italy   == <<73, 116, 97, 108, 121>>
USA     == <<85, 83, 65>>
China   == <<67, 104, 105, 110, 97>>
Belgium == <<66, 101, 108, 103, 105, 117, 109>>
Sopain  == <<83, 111, 112, 97, 105, 110>>
Germqany == <<71, 101, 114, 109, 113, 97, 110, 121>>
Itakly  == <<73, 116, 97, 107, 108, 121>>
Cvhina  == <<67, 118, 104, 105, 110, 97>>
Belguiun == <<66, 101, 108, 103, 117, 105, 117, 110>>
Xyzzy   == <<88, 121, 122, 122, 121>>

pending   == <<112, 101, 110, 100, 105, 110, 103>>
completed == <<99, 111, 109, 112, 108, 101, 116, 101, 100>>
failed    == <<102, 97, 105, 108, 101, 100>>
pendhing  == <<112, 101, 110, 100, 104, 105, 110, 103>>
pwnding   == <<112, 119, 110, 100, 105, 110, 103>>
compoletd == <<99, 111, 109, 112, 111, 108, 101, 116, 100>>
complete  == <<99, 111, 109, 112, 108, 101, 116, 101>>
fialed    == <<102, 105, 97, 108, 101, 100>>
faoleid   == <<102, 97, 111, 108, 101, 105, 100>>

\* the country spellings main generates, after the literal alias
\* "United States of America" has been replaced by "USA"
CountrySpellings ==
    {Spain, Germany, Italy, USA, China, Belgium,
     Sopain, Germqany, Itakly, Cvhina, Belguiun}

StatusSpellings ==
    {pending, completed, failed, pendhing, pwnding,
     compoletd, complete, fialed, faoleid}

correct_countries == <<Spain, China, USA, Italy, Belgium, Germany>>

correct_status == <<pending, failed, completed>>

----------------------------------------------------------------------------
(* difflib.get_close_matches(word, options, n=1, cutoff=0.7), as fix_word  *)
(* calls it.  SequenceMatcher has a = the candidate and b = the word; no   *)
(* junk (isjunk is None, and autojunk needs len(b) >= 200).                *)

\* cutoff = 0.7 = CutoffNum / CutoffDen
CutoffNum == 7
CutoffDen == 10

\* length of the common run a[ai..], b[bj..] inside a[..ahi], b[..bhi]
RECURSIVE RunLen(_, _, _, _, _, _)
RunLen(a, b, ai, bj, ahi, bhi) ==
    IF ai > ahi \/ bj > bhi \/ a[ai] # b[bj] THEN 0
    ELSE 1 + RunLen(a, b, ai + 1, bj + 1, ahi, bhi)

\* SequenceMatcher.find_longest_match on a[alo..ahi], b[blo..bhi]
\* (1-based, inclusive): <<besti, bestj, bestsize>>, the longest block; of those the one
\* starting earliest in a, and of those the one starting earliest in b
find_longest_match(a, b, alo, ahi, blo, bhi) ==
    LET P == (alo..ahi) \X (blo..bhi)
        L(p) == RunLen(a, b, p[1], p[2], ahi, bhi)
        k == IF P = {} THEN 0
             ELSE CHOOSE n \in {L(p) : p \in P} : \A q \in P : L(q) <= n
    IN  IF k = 0 THEN <<alo, blo, 0>>
        ELSE LET best == {p \in P : L(p) = k}
                 besti == CHOOSE x \in {p[1] : p \in best} :
                              \A p \in best : x <= p[1]
                 inA == {q \in best : q[1] = besti}
                 bestj == CHOOSE y \in {p[2] : p \in inA} :
                              \A p \in inA : y <= p[2]
             IN  <<besti, bestj, k>>

\* sum of the sizes of get_matching_blocks(): the longest block, then the
\* same to its left and to its right
RECURSIVE Matches(_, _, _, _, _, _)
Matches(a, b, alo, ahi, blo, bhi) ==
    IF alo > ahi \/ blo > bhi THEN 0
    ELSE LET m == find_longest_match(a, b, alo, ahi, blo, bhi)
         IN  IF m[3] = 0 THEN 0
             ELSE m[3]
                  + Matches(a, b, alo, m[1] - 1, blo, m[2] - 1)
                  + Matches(a, b, m[1] + m[3], ahi, m[2] + m[3], bhi)

\* _calculate_ratio(matches, length): 2.0 * matches / length, 1.0 for
\* length 0; kept exact as the fraction <<numerator, denominator>>
calculate_ratio(matches, length) ==
    IF length > 0 THEN <<2 * matches, length>> ELSE <<1, 1>>

\* SequenceMatcher.ratio()
ratio(a, b) ==
    calculate_ratio(Matches(a, b, 1, Len(a), 1, Len(b)), Len(a) + Len(b))

Count(s, c) == Cardinality({k \in DOMAIN s : s[k] = c})

RECURSIVE SumOver(_, _, _)
SumOver(S, a, b) ==
    IF S = {} THEN 0
    ELSE LET c == CHOOSE x \in S : TRUE
         IN  Min(Count(a, c), Count(b, c)) + SumOver(S \ {c}, a, b)

\* SequenceMatcher.quick_ratio(): size of the multiset intersection
quick_ratio(a, b) ==
    calculate_ratio(SumOver(Range(a), a, b), Len(a) + Len(b))

\* SequenceMatcher.real_quick_ratio()
real_quick_ratio(a, b) ==
    calculate_ratio(Min(Len(a), Len(b)), Len(a) + Len(b))

\* r >= cutoff
AtLeastCutoff(r) == r[1] * CutoffDen >= CutoffNum * r[2]

\* comparison of two scores
ScoreLess(r, s) == r[1] * s[2] < s[1] * r[2]

\* Python's ">" on the tuples (score, x)
TupleGreater(p, q) ==
    \/ ScoreLess(q[1], p[1])
    \/ p[1][1] * q[1][2] = q[1][1] * p[1][2] /\ StrLess(q[2], p[2])

\* the list result of get_close_matches before it is cut to the best n:
\* (score, x) for each x passing the three cutoff tests, in list order
RECURSIVE Scored(_, _)
Scored(w, poss) ==
    IF poss = <<>> THEN <<>>
    ELSE LET x == Head(poss)
         IN  (IF /\ AtLeastCutoff(real_quick_ratio(x, w))
                 /\ AtLeastCutoff(quick_ratio(x, w))
                 /\ AtLeastCutoff(ratio(x, w))
              THEN <<(<<ratio(x, w), x>>)>>
              ELSE <<>>) \o Scored(w, Tail(poss))

\* max(result): the first item no later item is greater than
RECURSIVE PyMax(_)
PyMax(result) ==
    IF Len(result) = 1 THEN result[1]
    ELSE LET m == PyMax(SubSeq(result, 1, Len(result) - 1))
             last == result[Len(result)]
         IN  IF TupleGreater(last, m) THEN last ELSE m

\* a selection that keeps the smallest item instead
RECURSIVE PyMin(_)
PyMin(result) ==
    IF Len(result) = 1 THEN result[1]
    ELSE LET m == PyMin(SubSeq(result, 1, Len(result) - 1))
             last == result[Len(result)]
         IN  IF TupleGreater(m, last) THEN last ELSE m

NSmallest1(result) ==
    IF result = <<>> THEN <<>> ELSE <<PyMin(result)>>

\* a selection that skips the ordering: the first item that passed
FirstFound1(result) ==
    IF result = <<>> THEN <<>> ELSE <<result[1]>>

\* a selection ordered by score alone: the first item of maximal score
RECURSIVE ScoreMax(_)
ScoreMax(result) ==
    IF Len(result) = 1 THEN result[1]
    ELSE LET m == ScoreMax(SubSeq(result, 1, Len(result) - 1))
             last == result[Len(result)]
         IN  IF ScoreLess(m[1], last[1]) THEN last ELSE m

NLargestByScore1(result) ==
    IF result = <<>> THEN <<>> ELSE <<ScoreMax(result)>>

\* heapq.nlargest(1, result): [] for an empty result, else [max(result)]
nlargest1(result) ==
    IF result = <<>> THEN <<>> ELSE <<PyMax(result)>>

\* get_close_matches(word, possibilities, n=1, cutoff=0.7): the scores
\* are stripped from the best n
get_close_matches(w, poss) ==
    LET best == nlargest1(Scored(w, poss))
    IN  [k \in DOMAIN best |-> best[k][2]]

fix_word(w, opts) ==
    LET closest == get_close_matches(w, opts)
    IN  IF closest # <<>> THEN closest[1] ELSE w

----------------------------------------------------------------------------
(* Inputs of the fuzzy corrector *)

\* the letters of the generated words: "a", "b"
Alphabet == {97, 98}

Words == SeqsUpTo(Alphabet, MaxWordLen)

\* the generated correct words: "ab", "ba", "aab", "abb", "bab", "bb"
CandidatePool ==
    {<<97, 98>>, <<98, 97>>, <<97, 97, 98>>, <<97, 98, 98>>,
     <<98, 97, 98>>, <<98, 98>>}

FuzzyInputs ==
    ({[w |-> w, o |-> o] : w \in Words, o \in SeqsUpTo(CandidatePool, MaxOptions)})
    \cup {[w |-> w, o |-> correct_countries] : w \in CountrySpellings}
    \cup {[w |-> w, o |-> correct_status] : w \in StatusSpellings}
    \cup {[w |-> w, o |-> <<Spain, USA, Italy>>] : w \in {Sopain, Xyzzy}}

FuzzyIdle ==
    /\ word = <<>>
    /\ options = <<>>
    /\ fixed = <<>>
    /\ refixed = <<>>

PipeIdle ==
    /\ df = <<>>
    /\ rows_page = 1
    /\ i = 0
    /\ pages = <<>>
    /\ json_body = <<>>
    /\ json_file = <<>>
    /\ csv_data = <<>>
    /\ total_df = <<>>

AggIdle ==
    /\ average_outstanding = <<>>
    /\ total_completed = <<>>
    /\ error_rate = <<>>
    /\ critical_rate = <<>>
    /\ final_df = <<>>

InitFuzzy ==
    /\ pc = "fix"
    /\ \E inp \in FuzzyInputs : word = inp.w /\ options = inp.o
    /\ fixed = <<>>
    /\ refixed = <<>>
    /\ PipeIdle
    /\ AggIdle

\* df[col].apply(lambda x: fix_word(x, correct)) on one value
ApplyFix ==
    /\ pc = "fix"
    /\ fixed' = fix_word(word, options)
    /\ pc' = "fixed"
    /\ UNCHANGED <<word, options, refixed, pipeVars, aggVars>>

\* the corrector run again on a corrected value
ApplyFixAgain ==
    /\ pc = "fixed"
    /\ refixed' = fix_word(fixed, options)
    /\ pc' = "refixed"
    /\ UNCHANGED <<word, options, fixed, pipeVars, aggVars>>

NextFuzzy == ApplyFix \/ ApplyFixAgain

SpecFuzzy == InitFuzzy /\ [][NextFuzzy]_vars

----------------------------------------------------------------------------
(* Page.to_csv(csv_file, index=False) and pd.read_csv: the tabular text.   *)
(* A dataset is a sequence of records [id, country, status, amount]; id is *)
(* an int, amount a float of integral value, country and status are str.   *)

COMMA == 44
NEWLINE == 10
DOT == 46
ZERO == 48

\* the column names "id", "country", "status", "amount"
col_id      == <<105, 100>>
col_country == <<99, 111, 117, 110, 116, 114, 121>>
col_status  == <<115, 116, 97, 116, 117, 115>>
col_amount  == <<97, 109, 111, 117, 110, 116>>

\* the text "NA", which read_csv takes for a missing value
NA == <<78, 65>>

\* read_csv's default na_values among the texts of the model: "" and "NA"
NaValues == {<<>>, NA}

\* the missing value NaN in a column of str
nan == <<-1>>

\* str(n) of an int n >= 0
RECURSIVE Digits(_)
Digits(n) ==
    IF n < 10 THEN <<ZERO + n>>
    ELSE Digits(n \div 10) \o <<ZERO + (n % 10)>>

\* repr of a float of integral value x: "100.0"
FormatFloat(x) == Digits(x) \o <<DOT, ZERO>>

RECURSIVE Join(_, _)
Join(fields, sep) ==
    IF fields = <<>> THEN <<>>
    ELSE IF Len(fields) = 1 THEN fields[1]
    ELSE fields[1] \o <<sep>> \o Join(Tail(fields), sep)

\* one line of the csv writer: the fields, comma-separated, then "\n"
\* (no field of the model holds a comma, a quote or a line break, so
\* QUOTE_MINIMAL quotes nothing)
CsvLine(fields) == Join(fields, COMMA) \o <<NEWLINE>>

RowLine(r) ==
    CsvLine(<<Digits(r.id), r.country, r.status, FormatFloat(r.amount)>>)

RECURSIVE RowLines(_)
RowLines(page) ==
    IF page = <<>> THEN <<>>
    ELSE RowLine(Head(page)) \o RowLines(Tail(page))

\* page.to_csv(csv_file, index=False), then f.read(): the bytes of the
\* file (the text is ASCII, so UTF-8 bytes are the code points)
to_csv(page) ==
    CsvLine(<<col_id, col_country, col_status, col_amount>>) \o RowLines(page)

\* text.split(sep)
RECURSIVE SplitOn(_, _)
SplitOn(text, sep) ==
    IF \A k \in DOMAIN text : text[k] # sep THEN <<text>>
    ELSE LET p == CHOOSE k \in DOMAIN text :
                      text[k] = sep /\ \A m \in 1..(k - 1) : text[m] # sep
         IN  <<SubSeq(text, 1, p - 1)>>
             \o SplitOn(SubSeq(text, p + 1, Len(text)), sep)

\* int(text) of decimal digits
RECURSIVE ParseInt(_)
ParseInt(text) ==
    IF text = <<>> THEN 0
    ELSE 10 * ParseInt(SubSeq(text, 1, Len(text) - 1))
         + (text[Len(text)] - ZERO)

\* float(text) where the fraction of text is zero: the integral value
ParseFloat(text) == ParseInt(SplitOn(text, DOT)[1])

\* a cell of a str column: NaN for a text in na_values
ParseStr(text) == IF text \in NaValues THEN nan ELSE text

\* the position of a column name in the header
ColumnOf(header, name) == CHOOSE k \in DOMAIN header : header[k] = name

\* pd.read_csv(io.StringIO(csv_text)): the first line names the columns,
\* each further line is a record; id parses as int64, amount as float64,
\* country and status stay str
read_csv(csv_text) ==
    LET all == SplitOn(csv_text, NEWLINE)
        lines == SubSeq(all, 1, Len(all) - 1)
        header == SplitOn(lines[1], COMMA)
        Cell(n, name) == SplitOn(lines[n + 1], COMMA)[ColumnOf(header, name)]
    IN  [n \in 1..(Len(lines) - 1) |->
            [id      |-> ParseInt(Cell(n, col_id)),
             country |-> ParseStr(Cell(n, col_country)),
             status  |-> ParseStr(Cell(n, col_status)),
             amount  |-> ParseFloat(Cell(n, col_amount))]]

----------------------------------------------------------------------------
(* base64.b64encode / base64.b64decode over the standard alphabet *)

PAD == 61

\* the character of a 6-bit value: A-Z, a-z, 0-9, +, /
B64Char(v) ==
    IF v < 26 THEN 65 + v
    ELSE IF v < 52 THEN 97 + (v - 26)
    ELSE IF v < 62 THEN 48 + (v - 52)
    ELSE IF v = 62 THEN 43 ELSE 47

\* the 6-bit value of a character
B64Val(c) ==
    IF c >= 65 /\ c <= 90 THEN c - 65
    ELSE IF c >= 97 /\ c <= 122 THEN c - 97 + 26
    ELSE IF c >= 48 /\ c <= 57 THEN c - 48 + 52
    ELSE IF c = 43 THEN 62 ELSE 63

\* base64.b64encode(content).decode('utf-8')
RECURSIVE b64encode(_)
b64encode(bytes) ==
    IF bytes = <<>> THEN <<>>
    ELSE IF Len(bytes) = 1 THEN
        <<B64Char(bytes[1] \div 4), B64Char((bytes[1] % 4) * 16), PAD, PAD>>
    ELSE IF Len(bytes) = 2 THEN
        <<B64Char(bytes[1] \div 4),
          B64Char((bytes[1] % 4) * 16 + bytes[2] \div 16),
          B64Char((bytes[2] % 16) * 4), PAD>>
    ELSE
        <<B64Char(bytes[1] \div 4),
          B64Char((bytes[1] % 4) * 16 + bytes[2] \div 16),
          B64Char((bytes[2] % 16) * 4 + bytes[3] \div 64),
          B64Char(bytes[3] % 64)>>
        \o b64encode(SubSeq(bytes, 4, Len(bytes)))

\* base64.b64decode(text) of a padded text
RECURSIVE b64decode(_)
b64decode(text) ==
    IF Len(text) < 4 THEN <<>>
    ELSE LET v1 == B64Val(text[1])
             v2 == B64Val(text[2])
             v3 == B64Val(text[3])
             v4 == B64Val(text[4])
             rest == b64decode(SubSeq(text, 5, Len(text)))
         IN  IF text[3] = PAD THEN <<v1 * 4 + v2 \div 16>>
             ELSE IF text[4] = PAD THEN
                 <<v1 * 4 + v2 \div 16, (v2 % 16) * 16 + v3 \div 4>>
             ELSE <<v1 * 4 + v2 \div 16, (v2 % 16) * 16 + v3 \div 4,
                    (v3 % 4) * 64 + v4>> \o rest

\* decode_csv_from_api(api_response)
decode_csv_from_api(api_response) ==
    LET csv_bytes == b64decode(api_response.csv_data)
        csv_text == csv_bytes
    IN  read_csv(csv_text)

----------------------------------------------------------------------------
(* main: the dataset, the pagination loop, csv2json and read_from_api *)

\* the (country, status, amount) of the generated records; "NA" is a text
\* read_csv takes for a missing value
RecordPool ==
    {[country |-> Spain, status |-> pending, amount |-> 100],
     [country |-> USA, status |-> failed, amount |-> 2000000],
     [country |-> NA, status |-> complete, amount |-> 50]}

\* pd.DataFrame(data) with 'id': np.arange(1, rows + 1)
Datasets ==
    UNION {{[k \in 1..n |-> [id |-> k, country |-> f[k].country,
                             status |-> f[k].status, amount |-> f[k].amount]] :
            f \in [1..n -> RecordPool]} : n \in 0..MaxRows}

\* rows of main: the number of records of df
rows == Len(df)

\* total_pages of main
total_pages(nrows, per_page) ==
    IF nrows % per_page # 0 THEN nrows \div per_page + 1
    ELSE nrows \div per_page

\* a slice one record short
SliceShort(d, lo, hi) == SubSeq(d, lo + 1, Min(hi, Len(d)) - 1)

\* df[lo:hi] (0-based, hi exclusive, cut at the end of df)
Slice(d, lo, hi) == SubSeq(d, lo + 1, Min(hi, Len(d)))

\* the page appended by one iteration of the pagination loop
PageAt(d, lo, per_page) == Slice(d, lo, lo + per_page)

\* a flag that is 0 on every page
NextPageFlagZero(page_number, total) == 0

\* next_page of the page numbered page_number among total
NextPageFlag(page_number, total) ==
    IF page_number = total THEN 0 ELSE 1

\* the dictionary csv2json appends for pages[idx] (idx 0-based)
PageRecordOf(pgs, idx) ==
    [page_number |-> idx + 1,
     next_page   |-> NextPageFlag(idx + 1, Len(pgs)),
     csv_data    |-> b64encode(to_csv(pgs[idx + 1]))]

\* not page.get('next_page'): the key is absent (None) or its value is 0
Falsy(page) == "next_page" \notin DOMAIN page \/ page.next_page = 0

\* a test that takes an absent key for "more pages"
FalsyIfPresent(page) == "next_page" \in DOMAIN page /\ page.next_page = 0

\* whether read_from_api leaves its loop after this page
StopsAfter(page) == Falsy(page)

\* pd.concat(frames, ignore_index=True) of a non-empty list
RECURSIVE concat(_)
concat(frames) ==
    IF frames = <<>> THEN <<>> ELSE Head(frames) \o concat(Tail(frames))

Init ==
    /\ pc = "paginate"
    /\ df \in Datasets
    /\ rows_page \in 1..MaxRowsPage
    /\ i = 0
    /\ pages = <<>>
    /\ json_body = <<>>
    /\ json_file = <<>>
    /\ csv_data = <<>>
    /\ total_df = <<>>
    /\ FuzzyIdle
    /\ AggIdle

\* for i in range(0, rows, rows_page): pages.append(df[i:i + rows_page])
PaginateStep ==
    /\ pc = "paginate"
    /\ i < rows
    /\ pages' = Append(pages, PageAt(df, i, rows_page))
    /\ i' = i + rows_page
    /\ UNCHANGED <<pc, df, rows_page, json_body, json_file, csv_data,
                   total_df, fuzzyVars, aggVars>>

\* the range is exhausted: csv2json(pages, ...) starts, json_body = {'pages': []}
PaginateDone ==
    /\ pc = "paginate"
    /\ i >= rows
    /\ pc' = "csv2json"
    /\ i' = 0
    /\ json_body' = <<>>
    /\ UNCHANGED <<df, rows_page, pages, json_file, csv_data, total_df,
                   fuzzyVars, aggVars>>

\* one iteration of csv2json's loop over enumerate(pages)
EncodeStep ==
    /\ pc = "csv2json"
    /\ i < Len(pages)
    /\ json_body' = Append(json_body, PageRecordOf(pages, i))
    /\ i' = i + 1
    /\ UNCHANGED <<pc, df, rows_page, pages, json_file, csv_data, total_df,
                   fuzzyVars, aggVars>>

\* json.dump(json_body, f); main goes on to read_from_api, csv_data = []
EncodeDone ==
    /\ pc = "csv2json"
    /\ i = Len(pages)
    /\ json_file' = json_body
    /\ pc' = "read"
    /\ i' = 0
    /\ csv_data' = <<>>
    /\ UNCHANGED <<df, rows_page, pages, json_body, total_df, fuzzyVars, aggVars>>

\* one iteration of read_from_api's loop over json_body['pages']
ReadStep ==
    /\ pc = "read"
    /\ i < Len(json_file)
    /\ csv_data' = Append(csv_data, decode_csv_from_api(json_file[i + 1]))
    /\ IF StopsAfter(json_file[i + 1])
       THEN pc' = "concat" /\ i' = i
       ELSE pc' = "read" /\ i' = i + 1
    /\ UNCHANGED <<df, rows_page, pages, json_body, json_file, total_df,
                   fuzzyVars, aggVars>>

\* the loop ends with no page left
ReadEnd ==
    /\ pc = "read"
    /\ i = Len(json_file)
    /\ pc' = "concat"
    /\ UNCHANGED <<df, rows_page, i, pages, json_body, json_file, csv_data,
                   total_df, fuzzyVars, aggVars>>

\* total_df = pd.concat(csv_data, ignore_index=True); return total_df
Concat ==
    /\ pc = "concat"
    /\ csv_data # <<>>
    /\ total_df' = concat(csv_data)
    /\ pc' = "done"
    /\ UNCHANGED <<df, rows_page, i, pages, json_body, json_file, csv_data,
                   fuzzyVars, aggVars>>

\* pd.concat([]) raises ValueError("No objects to concatenate")
ConcatRaises ==
    /\ pc = "concat"
    /\ csv_data = <<>>
    /\ pc' = "ValueError"
    /\ UNCHANGED <<pipeVars, fuzzyVars, aggVars>>

Next ==
    \/ PaginateStep
    \/ PaginateDone
    \/ EncodeStep
    \/ EncodeDone
    \/ ReadStep
    \/ ReadEnd
    \/ Concat
    \/ ConcatRaises

Spec == Init /\ [][Next]_vars

----------------------------------------------------------------------------
(* read_from_api on any stored envelope *)

\* the page an envelope stores under page number n: one record
StoredPage(n) ==
    <<[id |-> n, country |-> IF n % 2 = 1 THEN Spain ELSE USA,
       status |-> pending, amount |-> 100 * n]>>

\* PageRecords with any page number, with next_page 0, 1 or absent
PageRecords ==
    {[page_number |-> n, next_page |-> f,
      csv_data |-> b64encode(to_csv(StoredPage(n)))] :
        n \in 1..MaxEnvPages, f \in {0, 1}}
    \cup {[page_number |-> n,
           csv_data |-> b64encode(to_csv(StoredPage(n)))] :
            n \in 1..MaxEnvPages}

Envelopes == SeqsUpTo(PageRecords, MaxEnvPages)

InitDecode ==
    /\ pc = "read"
    /\ json_file \in Envelopes
    /\ df = <<>>
    /\ rows_page = 1
    /\ i = 0
    /\ pages = <<>>
    /\ json_body = <<>>
    /\ csv_data = <<>>
    /\ total_df = <<>>
    /\ FuzzyIdle
    /\ AggIdle

NextDecode == ReadStep \/ ReadEnd \/ Concat \/ ConcatRaises

SpecDecode == InitDecode /\ [][NextDecode]_vars

----------------------------------------------------------------------------
(* main: the grouped aggregation and the report.  A Series is a sequence   *)
(* of [key, val] in index order; a rate is the fraction <<n, d>>.          *)

\* amount > 1000000
CriticalAmount == 1000000

\* NaN as a rate
NaNRate == <<0, 0>>

\* 0 as a rate
ZeroRate == <<0, 1>>

\* the strings of S in ascending order
RECURSIVE SortedSeq(_)
SortedSeq(S) ==
    IF S = {} THEN <<>>
    ELSE LET least == CHOOSE x \in S : \A y \in S : y = x \/ StrLess(x, y)
         IN  <<least>> \o SortedSeq(S \ {least})


RECURSIVE SumAmount(_)
SumAmount(d) ==
    IF d = <<>> THEN 0 ELSE Head(d).amount + SumAmount(Tail(d))

IsPending(r) == r.status = pending
IsCompleted(r) == r.status = completed
IsFailed(r) == r.status = failed
IsCritical(r) == r.amount > CriticalAmount /\ r.status = failed

\* df[mask]: the records satisfying the mask, in order
PendingOf(d) == SelectSeq(d, IsPending)
CompletedOf(d) == SelectSeq(d, IsCompleted)
FailedOf(d) == SelectSeq(d, IsFailed)
CriticalOf(d) == SelectSeq(d, IsCritical)

\* the group keys of d.groupby('country'): sorted, NaN keys dropped
GroupKeys(d) == SortedSeq({d[k].country : k \in DOMAIN d} \ {nan})

\* the records of the group of country c
Group(d, c) == SelectSeq(d, LAMBDA r : r.country = c)

\* d.groupby('country')['amount'].mean(): <<sum, count>> per group
GroupMean(d) ==
    LET keys == GroupKeys(d)
    IN  [k \in DOMAIN keys |->
            [key |-> keys[k],
             val |-> <<SumAmount(Group(d, keys[k])), Len(Group(d, keys[k]))>>]]

\* d.groupby('country')['amount'].sum()
GroupSum(d) ==
    LET keys == GroupKeys(d)
    IN  [k \in DOMAIN keys |->
            [key |-> keys[k], val |-> SumAmount(Group(d, keys[k]))]]

\* d.groupby('country').size()
GroupSize(d) ==
    LET keys == GroupKeys(d)
    IN  [k \in DOMAIN keys |->
            [key |-> keys[k], val |-> Len(Group(d, keys[k]))]]

Keys(series) == {series[k].key : k \in DOMAIN series}

HasKey(series, c) == c \in Keys(series)

Lookup(series, c) ==
    series[CHOOSE k \in DOMAIN series : series[k].key = c].val

\* a division kept to the keys both Series have
SeriesDivInner(num, den) ==
    LET keys == SortedSeq(Keys(num) \cap Keys(den))
    IN  [k \in DOMAIN keys |->
            [key |-> keys[k],
             val |-> <<Lookup(num, keys[k]), Lookup(den, keys[k])>>]]

\* num / den of two Series: aligned on the sorted union of their indexes,
\* NaN where either side has no value
SeriesDiv(num, den) ==
    LET keys == SortedSeq(Keys(num) \cup Keys(den))
    IN  [k \in DOMAIN keys |->
            [key |-> keys[k],
             val |-> IF HasKey(num, keys[k]) /\ HasKey(den, keys[k])
                     THEN <<Lookup(num, keys[k]), Lookup(den, keys[k])>>
                     ELSE NaNRate]]

\* series.fillna(0)
fillna0(series) ==
    [k \in DOMAIN series |->
        [key |-> series[k].key,
         val |-> IF series[k].val = NaNRate THEN ZeroRate ELSE series[k].val]]

\* the (country, status, amount) of the generated cleaned records
AggPool ==
    {[country |-> Spain, status |-> pending, amount |-> 100],
     [country |-> Spain, status |-> completed, amount |-> 200],
     [country |-> Spain, status |-> failed, amount |-> 50],
     [country |-> USA, status |-> failed, amount |-> 2000000],
     [country |-> USA, status |-> pending, amount |-> 300],
     [country |-> USA, status |-> completed, amount |-> 400]}

CleanedDatasets ==
    UNION {{[k \in 1..n |-> [id |-> k, country |-> f[k].country,
                             status |-> f[k].status, amount |-> f[k].amount]] :
            f \in [1..n -> AggPool]} : n \in 0..MaxAggRows}

InitAgg ==
    /\ pc = "aggregate"
    /\ df \in CleanedDatasets
    /\ rows_page = 1
    /\ i = 0
    /\ pages = <<>>
    /\ json_body = <<>>
    /\ json_file = <<>>
    /\ csv_data = <<>>
    /\ total_df = <<>>
    /\ FuzzyIdle
    /\ AggIdle

\* the four derived Series
Aggregate ==
    /\ pc = "aggregate"
    /\ average_outstanding' = GroupMean(PendingOf(df))
    /\ total_completed' = GroupSum(CompletedOf(df))
    /\ error_rate' = SeriesDiv(GroupSize(FailedOf(df)), GroupSize(df))
    /\ critical_rate' =
           fillna0(SeriesDiv(GroupSize(CriticalOf(df)), GroupSize(df)))
    /\ pc' = "assemble"
    /\ UNCHANGED <<final_df, pipeVars, fuzzyVars>>

SameLengths ==
    /\ Len(total_completed) = Len(average_outstanding)
    /\ Len(critical_rate) = Len(average_outstanding)
    /\ Len(error_rate) = Len(average_outstanding)

\* final_df = pd.DataFrame({...}) of the index of average_outstanding and
\* the .values of the four Series, row k made of their k-th items
Assemble ==
    /\ pc = "assemble"
    /\ SameLengths
    /\ final_df' =
           [k \in DOMAIN average_outstanding |->
               [country             |-> average_outstanding[k].key,
                average_outstanding |-> average_outstanding[k].val,
                total_completed     |-> total_completed[k].val,
                critical_rate       |-> critical_rate[k].val,
                error_rate          |-> error_rate[k].val]]
    /\ pc' = "reported"
    /\ UNCHANGED <<average_outstanding, total_completed, error_rate,
                   critical_rate, pipeVars, fuzzyVars>>

\* pd.DataFrame raises ValueError("All arrays must be of the same length")
AssembleRaises ==
    /\ pc = "assemble"
    /\ ~SameLengths
    /\ pc' = "ValueError"
    /\ UNCHANGED <<aggVars, pipeVars, fuzzyVars>>

NextAgg == Aggregate \/ Assemble \/ AssembleRaises

SpecAgg == InitAgg /\ [][NextAgg]_vars

----------------------------------------------------------------------------
(* Properties of the pagination loop, csv2json and read_from_api *)

\* ceil(n / p) for p > 0
CeilDiv(n, p) == CHOOSE q \in 0..n : q * p >= n /\ (q = 0 \/ (q - 1) * p < n)

\* C1: round trip.  For any dataset (the empty one included) and any page
\* size > 0, paginating, encoding with csv2json and decoding with
\* read_from_api returns a dataset equal to the original one: the run ends
\* with total_df = df.
C1_RoundTrip ==
    pc \in {"done", "ValueError"} => pc = "done" /\ total_df = df

\* C2: pagination completeness.  While the loop runs, the pages built so
\* far are full pages that concatenate to the first i records; once it has
\* ended there are ceil(rows / rows_page) pages, as many as total_pages
\* computes, every page but the last has rows_page records, the last has
\* between 1 and rows_page, and the pages concatenate to df.
C2_PaginationComplete ==
    /\ pc = "paginate" =>
           /\ concat(pages) = SubSeq(df, 1, Min(i, rows))
           /\ \A k \in 1..(Len(pages) - 1) : Len(pages[k]) = rows_page
    /\ pc \in {"csv2json", "read", "concat", "done", "ValueError"} =>
           /\ Len(pages) = CeilDiv(rows, rows_page)
           /\ Len(pages) = total_pages(rows, rows_page)
           /\ \A k \in 1..(Len(pages) - 1) : Len(pages[k]) = rows_page
           /\ pages # <<>> =>
                  /\ Len(pages[Len(pages)]) >= 1
                  /\ Len(pages[Len(pages)]) <= rows_page
           /\ concat(pages) = df

\* a run whose last page is shorter than the page size
C2_Witness ==
    /\ pc = "csv2json"
    /\ Len(pages) = 2
    /\ Len(pages[1]) = rows_page
    /\ Len(pages[2]) < rows_page

\* C3: envelope continuation.  After each iteration of csv2json's loop,
\* the k-th PageRecord appended so far has page_number k and next_page 1,
\* except the record of the last of the n pages, whose next_page is 0; the
\* stored envelope has one PageRecord per page.
C3_EnvelopeContinuation ==
    /\ pc \in {"csv2json", "read", "concat", "done", "ValueError"} =>
           \A k \in DOMAIN json_body :
               /\ json_body[k].page_number = k
               /\ json_body[k].next_page = 1 <=> k # Len(pages)
               /\ json_body[k].next_page = 0 <=> k = Len(pages)
    /\ pc \in {"read", "concat", "done", "ValueError"} =>
           /\ json_file = json_body
           /\ Len(json_file) = Len(pages)

\* an envelope of several pages has been stored
C3_Witness ==
    /\ pc = "read"
    /\ Len(json_file) >= 2
    /\ json_file[1].next_page = 1
    /\ json_file[Len(json_file)].next_page = 0

\* the position of the first PageRecord with a falsy next_page, or the
\* number of PageRecords when there is none
StopIndex(env) ==
    IF \E k \in DOMAIN env : Falsy(env[k])
    THEN CHOOSE k \in DOMAIN env :
             Falsy(env[k]) /\ \A m \in 1..(k - 1) : ~Falsy(env[m])
    ELSE Len(env)

\* the records an envelope stores in its first n PageRecords, in stored order
RECURSIVE StoredUpTo(_, _)
StoredUpTo(env, n) ==
    IF n = 0 THEN <<>>
    ELSE StoredUpTo(env, n - 1) \o StoredPage(env[n].page_number)

\* C4: decoder order and early termination.  On an envelope with at least
\* one PageRecord, read_from_api decodes the PageRecords in stored order,
\* whatever their page numbers, and stops after the first one whose
\* next_page is 0 or absent: the pages decoded so far are always those of
\* the first PageRecords, never past that one, and the result is the
\* records of the stored pages from the first up to and including it.
C4_DecoderStopsAtFalsy ==
    json_file # <<>> =>
        /\ pc \in {"read", "concat", "done"}
        /\ Len(csv_data) <= StopIndex(json_file)
        /\ concat(csv_data) = StoredUpTo(json_file, Len(csv_data))
        /\ pc \in {"concat", "done"} => Len(csv_data) = StopIndex(json_file)
        /\ pc = "done" =>
               total_df = StoredUpTo(json_file, StopIndex(json_file))

\* a 3-page envelope, stored out of page-number order, whose second
\* PageRecord has next_page 0: the result is the first two stored pages
C4_Witness ==
    /\ pc = "done"
    /\ Len(json_file) = 3
    /\ json_file[1].page_number = 2
    /\ json_file[2].page_number = 1
    /\ json_file[3].page_number = 3
    /\ ~Falsy(json_file[1])
    /\ "next_page" \in DOMAIN json_file[2]
    /\ json_file[2].next_page = 0
    /\ total_df = StoredPage(2) \o StoredPage(1)

----------------------------------------------------------------------------
(* Properties of fix_word *)

\* the candidates of opts scoring at least the cutoff against w
Passing(w, opts) == {x \in Range(opts) : AtLeastCutoff(ratio(x, w))}

\* the candidates of opts of highest score against w
TopScoring(w, opts) ==
    {x \in Range(opts) :
        \A y \in Range(opts) : ~ScoreLess(ratio(x, w), ratio(y, w))}

\* C5: fuzzy selection rule.  fix_word returns a candidate of highest
\* similarity score when that score is at least 0.7 and the input value
\* unchanged otherwise, so its result is a member of the vocabulary or the
\* input itself; Sopain with <<Spain, USA, Italy>> gives Spain and Xyzzy
\* gives Xyzzy.
C5_FuzzySelection ==
    pc \in {"fixed", "refixed"} =>
        /\ IF Passing(word, options) # {}
           THEN fixed \in TopScoring(word, options)
           ELSE fixed = word
        /\ fixed \in Range(options) \cup {word}
        /\ (word = Sopain /\ options = <<Spain, USA, Italy>>) => fixed = Spain
        /\ (word = Xyzzy /\ options = <<Spain, USA, Italy>>) => fixed = Xyzzy

\* several candidates pass the cutoff with different scores and the
\* result is the one of highest score
C5_Witness ==
    /\ pc = "fixed"
    /\ Cardinality(Passing(word, options)) >= 2
    /\ Passing(word, options) # TopScoring(word, options)
    /\ fixed \in TopScoring(word, options)

\* the first candidate of highest score in the order of the list
FirstTop(w, opts) ==
    opts[CHOOSE k \in DOMAIN opts :
             /\ opts[k] \in TopScoring(w, opts)
             /\ \A m \in 1..(k - 1) : opts[m] \notin TopScoring(w, opts)]

\* C6 as stated: among the candidates sharing the highest score (at least
\* 0.7), fix_word returns the one coming first in the vocabulary's order.
C6_TieFirstFound ==
    (pc = "fixed" /\ Passing(word, options) # {}) =>
        fixed = FirstTop(word, options)

\* C6 as the code has it: among the candidates sharing the highest score
\* (at least 0.7), fix_word returns the greatest one in str order, whatever
\* the order of the vocabulary.
C6_TieGreatestString ==
    (pc = "fixed" /\ Passing(word, options) # {}) =>
        /\ fixed \in TopScoring(word, options)
        /\ \A y \in TopScoring(word, options) : y = fixed \/ StrLess(y, fixed)

\* two different candidates tie at the highest score and the first of
\* them in the list is not the one returned
C6_Witness ==
    /\ pc = "fixed"
    /\ Passing(word, options) # {}
    /\ Cardinality(TopScoring(word, options)) >= 2
    /\ fixed # FirstTop(word, options)

\* C7: correction idempotence.  A value that is a member of the vocabulary
\* is returned unchanged, and a correction that lands in the vocabulary is
\* a fixed point of the corrector.
C7_Idempotence ==
    /\ (pc \in {"fixed", "refixed"} /\ word \in Range(options)) => fixed = word
    /\ (pc = "refixed" /\ fixed \in Range(options)) => refixed = fixed

\* a misspelt value has been corrected and corrected again, with a
\* second candidate of the vocabulary close to the corrected value
C7_Witness ==
    /\ pc = "refixed"
    /\ word \notin Range(options)
    /\ fixed \in Range(options)
    /\ refixed = fixed
    /\ Cardinality(Passing(fixed, options)) >= 2

----------------------------------------------------------------------------
(* Properties of the aggregation and the report *)

\* the countries of d that have a pending record
CountriesPending(d) ==
    {d[k].country : k \in {m \in DOMAIN d : d[m].status = pending}}

Countries(d) == {d[k].country : k \in DOMAIN d}

\* C8: report row set.  For every cleaned dataset the aggregation produces
\* a report with exactly one row per country having a pending record, in
\* the order of the country names; a country without pending records is
\* absent and the report is still produced.
C8_ReportRowSet ==
    pc \in {"reported", "ValueError"} =>
        /\ pc = "reported"
        /\ [k \in DOMAIN final_df |-> final_df[k].country]
               = SortedSeq(CountriesPending(df))

\* C9: error rate value.  For every country of the cleaned dataset,
\* error_rate is the number of its failed records over the number of its
\* records, a defined value in [0, 1]: 0 when it has no failed record.
C9_ErrorRateValue ==
    pc \in {"assemble", "reported", "ValueError"} =>
        \A c \in Countries(df) :
            /\ HasKey(error_rate, c)
            /\ Lookup(error_rate, c)[2] > 0
            /\ Lookup(error_rate, c)[1] * Len(Group(df, c))
                   = Len(FailedOf(Group(df, c))) * Lookup(error_rate, c)[2]

\* the k-th index entries of the four Series
IndexOf(series) == [k \in DOMAIN series |-> series[k].key]

\* C10: positional assembly never misaligns silently.  Either the four
\* derived Series have the same country index in the same order, and then
\* each row of the report carries the values the Series hold for the row's
\* own country, or their lengths differ, and then the assembly raises and
\* no report exists.
C10_NoSilentMisalignment ==
    /\ pc \in {"assemble", "reported", "ValueError"} =>
           \/ /\ IndexOf(total_completed) = IndexOf(average_outstanding)
              /\ IndexOf(error_rate) = IndexOf(average_outstanding)
              /\ IndexOf(critical_rate) = IndexOf(average_outstanding)
              /\ pc # "ValueError"
           \/ /\ ~SameLengths
              /\ pc # "reported"
    /\ pc = "ValueError" => final_df = <<>>
    /\ pc = "reported" =>
           \A k \in DOMAIN final_df :
               LET c == final_df[k].country
               IN  /\ HasKey(average_outstanding, c)
                   /\ HasKey(total_completed, c)
                   /\ HasKey(error_rate, c)
                   /\ HasKey(critical_rate, c)
                   /\ final_df[k].average_outstanding
                          = Lookup(average_outstanding, c)
                   /\ final_df[k].total_completed = Lookup(total_completed, c)
                   /\ final_df[k].error_rate = Lookup(error_rate, c)
                   /\ final_df[k].critical_rate = Lookup(critical_rate, c)
                   /\ final_df[k].total_completed
                          = SumAmount(CompletedOf(Group(df, c)))

\* a report of two rows has been assembled
C10_Witness ==
    /\ pc = "reported"
    /\ Len(final_df) = 2
    /\ final_df[1].country = Spain
    /\ final_df[2].country = USA
    /\ final_df[1].total_completed # final_df[2].total_completed

====
